---- MODULE Spec2Model ----
(***************************************************************************)
(* Model of specklepy/objects/builtElements/rebar.py: RebarShape,          *)
(* RebarGroup and the representation generator (line mode, volume mode,    *)
(* the cylinder mesher).                                                   *)
(*                                                                         *)
(* Python objects are modelled with their identity where it matters: the   *)
(* Line objects of shape.lines live in `heap` and shape.lines holds their  *)
(* ids, so that a list holding the same object as another list is visible. *)
(* Floating point scalars of a mesh are kept as terms (base, circle        *)
(* offset, sweep) instead of numbers; length * unit_direction[k] is the    *)
(* k-th component of the direction.                                        *)
(***************************************************************************)
EXTENDS Integers, Sequences, FiniteSets, TLC

VARIABLES
    pc,                   \* "init": no group yet, "built": RebarGroup() returned, "failed": it raised
    heap,                 \* the Line objects created by the caller, by id (1..Len(heap))
    shape,                \* the RebarShape: lines (ids into heap), polylines (flat scalar lists), bar_diameter
    number,               \* RebarGroup.number
    representation_mode,  \* RebarGroup.representation_mode
    representation,       \* RebarGroup.representation (unset while pc # "built")
    err,                  \* the exception type RebarGroup() raised, or "none"
    rep0,                 \* history: the value of representation when the constructor stored it
    muts,                 \* history: number of mutations made after construction
    call                  \* the last direct call of _line_to_cylinder_mesh and what it returned

vars == <<pc, heap, shape, number, representation_mode, representation, err, rep0, muts, call>>

----------------------------------------------------------------------------
(* Bounds of the model *)

MaxLines == 2      \* shape.lines holds at most this many Line objects
MaxPolys == 1      \* shape.polylines holds at most this many polylines
MaxPts == 3        \* the polylines of a shape hold at most this many points in total
MaxNumber == 2     \* number ranges over -1..MaxNumber
MaxN == 3          \* num_segments of a direct mesher call ranges over 0..MaxN
MaxMut == 2        \* mutations made after construction

(* Program constants *)

AS_LINE == "AsLine"
AS_VOLUME == "AsVolume"
DefaultNumSegments == 36
RadiusDivisor == 2000

(* Input domains *)

Pts == {<<0, 0, 0>>, <<0, 0, 1>>}
Diameters == {16, 20}
Modes == {AS_LINE, AS_VOLUME, "bogus"}
Numbers == (-1)..MaxNumber

----------------------------------------------------------------------------
(* Values *)

\* A Point object: supports .x .y .z
Point(c) == [kind |-> "Point", c |-> c]

\* A plain Python list (a slice of polyline.value): has no .x
PyList(s) == [kind |-> "list", c |-> s]

\* Line(start=..., end=...): a passive holder of whatever it is given
Line(start, end) == [start |-> start, end |-> end]

NoLine == Line([kind |-> "none", c |-> <<>>], [kind |-> "none", c |-> <<>>])

Min(a, b) == IF a < b THEN a ELSE b

\* Python s[a:b] for 0 <= a <= b (a slice is clamped to the list, and is a new list)
Slice(s, a, b) == SubSeq(s, Min(a, Len(s)) + 1, Min(b, Len(s)))

\* An element of a list that holds a caller's Line object (by identity)
Ref(id) == [id |-> id, line |-> NoLine]

\* An element of a list that holds a Line object created by the generator
New(l) == [id |-> 0, line |-> l]

\* The Line an element of a line-mode representation denotes in heap h
Deref(e, h) == IF e.id # 0 THEN h[e.id] ELSE e.line

RepValue(rep, h) == [k \in 1..Len(rep) |-> IF "id" \in DOMAIN rep[k] THEN Deref(rep[k], h) ELSE rep[k]]

----------------------------------------------------------------------------
(* RebarGroup._generate_line_representation *)

RECURSIVE PolylineSegmentsFrom(_, _)
PolylineSegmentsFrom(value, j) ==
    IF j < Len(value) - 3
    THEN <<New(Line(PyList(Slice(value, j, j + 3)), PyList(Slice(value, j + 3, j + 6))))>>
             \o PolylineSegmentsFrom(value, j + 3)
    ELSE <<>>

PolylineSegmentsAll(value) ==
    [k \in 1..(Len(value) \div 3) |->
        New(Line(PyList(Slice(value, 3 * (k - 1), 3 * k)), PyList(Slice(value, 3 * k, 3 * k + 3))))]

\* for j in range(0, len(polyline.value) - 3, 3): lines.append(Line(start=..., end=...))
PolylineSegments(value) == PolylineSegmentsFrom(value, 0)

RECURSIVE PolylinesLoop(_, _)
PolylinesLoop(polylines, k) ==
    IF k <= Len(polylines)
    THEN PolylineSegments(polylines[k]) \o PolylinesLoop(polylines, k + 1)
    ELSE <<>>

\* for line in self.shape.lines: lines.append(line)   (the object itself, not a copy)
LinesLoop(lines) == [k \in 1..Len(lines) |-> Ref(lines[k])]

RECURSIVE LineInstances(_, _, _)
LineInstances(sh, n, i) ==
    IF i < n
    THEN LinesLoop(sh.lines) \o PolylinesLoop(sh.polylines, 1) \o LineInstances(sh, n, i + 1)
    ELSE <<>>

GenerateLineRepresentationOneMore(sh, n) == [err |-> "none", rep |-> LineInstances(sh, n + 1, 0)]

\* lines = []; for i in range(self.number): ...; return lines
GenerateLineRepresentation(sh, n) == [err |-> "none", rep |-> LineInstances(sh, n, 0)]

----------------------------------------------------------------------------
(* RebarGroup._line_to_cylinder_mesh *)

\* A vertex scalar: base + off + sweep, where off is a circle vertex component
Scalar(base, off, sweep) == [base |-> base, off |-> off, sweep |-> sweep]

\* radius * cos(angle) or radius * sin(angle), angle = 2 * pi * i / num_segments,
\* radius = bar_diameter / RadiusDivisor
Trig(f, d, i, n) == [f |-> f, d |-> d, div |-> RadiusDivisor, i |-> i, n |-> n]

NoOff == [f |-> "none", d |-> 0, div |-> 0, i |-> 0, n |-> 0]

\* for i in range(num_segments): circle_vertices.append([x, y, 0])
CircleVertices(d, n) == [k \in 1..n |-> <<Trig("cos", d, k - 1, n), Trig("sin", d, k - 1, n)>>]

RECURSIVE VerticesLoop(_, _, _, _)
VerticesLoop(cv, k, sp, sweep) ==
    IF k <= Len(cv)
    THEN << Scalar(sp[1], cv[k][1], 0), Scalar(sp[2], cv[k][2], 0), Scalar(sp[3], NoOff, 0),
            Scalar(sp[1], cv[k][1], sweep[1]), Scalar(sp[2], cv[k][2], sweep[2]),
            Scalar(sp[3], NoOff, sweep[3]) >>
         \o VerticesLoop(cv, k + 1, sp, sweep)
    ELSE <<>>

\* for vertex in circle_vertices: vertices.extend([bottom]); vertices.extend([top])
Vertices(cv, sp, sweep) == VerticesLoop(cv, 1, sp, sweep)

RECURSIVE SideFacesLoop(_, _)
SideFacesLoop(n, i) ==
    IF i < n
    THEN LET bottom1 == i * 2
             top1 == bottom1 + 1
             bottom2 == (i * 2 + 2) % (n * 2)
             top2 == (i * 2 + 3) % (n * 2)
         IN  <<3, bottom1, top1, bottom2, 3, top1, top2, bottom2>> \o SideFacesLoop(n, i + 1)
    ELSE <<>>

RECURSIVE SideFacesSingleLoop(_, _)
SideFacesSingleLoop(n, i) ==
    IF i < n
    THEN <<3, i * 2, i * 2 + 1, (i * 2 + 2) % (n * 2)>> \o SideFacesSingleLoop(n, i + 1)
    ELSE <<>>

SideFacesSingle(n) == SideFacesSingleLoop(n, 0)

\* for i in range(num_segments): the two side triangles of quad i
SideFaces(n) == SideFacesLoop(n, 0)

RECURSIVE CapFacesLoop(_, _, _, _)
CapFacesLoop(n, i, top_center, bottom_center) ==
    IF i < n
    THEN <<3, bottom_center, i * 2, (i * 2 + 2) % (n * 2),
           3, top_center, (i * 2 + 1) % (n * 2), i * 2 + 1>>
         \o CapFacesLoop(n, i + 1, top_center, bottom_center)
    ELSE <<>>

\* for i in range(num_segments): one bottom-cap and one top-cap triangle
CapFaces(n, top_center, bottom_center) == CapFacesLoop(n, 0, top_center, bottom_center)

\* Python floor division by a positive divisor
FloorDiv(a, b) == a \div b

Mesh(vertices, faces) == [vertices |-> vertices, faces |-> faces]

NoMesh == Mesh(<<>>, <<>>)

\* line.start.x ... line.end.z: the endpoints must be Points
MeshErr(line) ==
    IF line.start.kind # "Point" \/ line.end.kind # "Point" THEN "AttributeError"
    ELSE LET direction == [k \in 1..3 |-> line.end.c[k] - line.start.c[k]]
         IN  \* length = sqrt(sum(d ** 2)); d / length raises when length is 0
             IF \A k \in 1..3 : direction[k] = 0 THEN "ZeroDivisionError" ELSE "none"

MeshOf(line, num_segments, d) ==
    LET start_point == line.start.c
        direction == [k \in 1..3 |-> line.end.c[k] - line.start.c[k]]
        vertices == Vertices(CircleVertices(d, num_segments), start_point, direction)
        top_center == FloorDiv(Len(vertices), 2) - 1
        bottom_center == Len(vertices) - 1
    IN  Mesh(vertices, SideFaces(num_segments) \o CapFaces(num_segments, top_center, bottom_center))

LineToCylinderMesh(line, num_segments, d) ==
    IF MeshErr(line) # "none"
    THEN [err |-> MeshErr(line), mesh |-> NoMesh]
    ELSE [err |-> "none", mesh |-> MeshOf(line, num_segments, d)]

----------------------------------------------------------------------------
(* RebarGroup._generate_volumetric_representation *)

RECURSIVE VolPolylineSegmentsFrom(_, _)
VolPolylineSegmentsFrom(value, j) ==
    IF j < Len(value) - 3
    THEN <<Line(PyList(Slice(value, j, j + 3)), PyList(Slice(value, j + 3, j + 6)))>>
             \o VolPolylineSegmentsFrom(value, j + 3)
    ELSE <<>>

RECURSIVE VolPolylinesLoop(_, _)
VolPolylinesLoop(polylines, k) ==
    IF k <= Len(polylines)
    THEN VolPolylineSegmentsFrom(polylines[k], 0) \o VolPolylinesLoop(polylines, k + 1)
    ELSE <<>>

RECURSIVE VolInstances(_, _, _, _)
VolInstances(sh, h, n, i) ==
    IF i < n
    THEN [k \in 1..Len(sh.lines) |-> h[sh.lines[k]]] \o VolPolylinesLoop(sh.polylines, 1)
             \o VolInstances(sh, h, n, i + 1)
    ELSE <<>>

\* The Lines handed to _line_to_cylinder_mesh, in call order, if no call raises
VolSegments(sh, h, n) == VolInstances(sh, h, n, 0)

\* meshes.append(self._line_to_cylinder_mesh(...)) per segment; the first call
\* that raises ends the generation and nothing is returned
GenerateVolumetricRepresentation(sh, h, n) ==
    LET segs == VolSegments(sh, h, n)
        bad == {k \in 1..Len(segs) : MeshErr(segs[k]) # "none"}
    IN  IF bad # {}
        THEN [err |-> MeshErr(segs[CHOOSE k \in bad : \A m \in bad : k <= m]), rep |-> <<>>]
        ELSE [err |-> "none",
              rep |-> [k \in 1..Len(segs) |->
                          LineToCylinderMesh(segs[k], DefaultNumSegments, sh.bar_diameter).mesh]]

----------------------------------------------------------------------------
(* RebarGroup.generate_representation *)

GenerateRepresentationLineOnly(sh, h, n, mode) ==
    IF mode # AS_LINE
    THEN GenerateVolumetricRepresentation(sh, h, n)
    ELSE GenerateLineRepresentation(sh, n)

GenerateRepresentation(sh, h, n, mode) ==
    IF mode = AS_VOLUME
    THEN GenerateVolumetricRepresentation(sh, h, n)
    ELSE GenerateLineRepresentation(sh, n)

----------------------------------------------------------------------------
(* Inputs *)

SeqsUpTo(S, n) == UNION {[1..m -> S] : m \in 0..n}

\* The Line objects a caller builds from Points
Lines == {Line(Point(a), Point(b)) : a \in Pts, b \in Pts}

\* Polyline.value of a polyline through the points ps: their coordinates, flat
Flat(ps) == [k \in 1..(3 * Len(ps)) |-> ps[((k - 1) \div 3) + 1][((k - 1) % 3) + 1]]

Polylines == {Flat(ps) : ps \in SeqsUpTo(Pts, MaxPts)}

RECURSIVE SumLen(_, _)
SumLen(pls, k) == IF k > Len(pls) THEN 0 ELSE Len(pls[k]) + SumLen(pls, k + 1)

PolylineLists == {pls \in SeqsUpTo(Polylines, MaxPolys) : SumLen(pls, 1) <= 3 * MaxPts}

NoCall == [line |-> NoLine, n |-> 0, err |-> "none", mesh |-> NoMesh, done |-> FALSE]

----------------------------------------------------------------------------
(* RebarShape.__init__ and the state before a group exists *)

RebarShape(lines, polylines, bar_diameter) ==
    [lines |-> lines, polylines |-> polylines, bar_diameter |-> bar_diameter]

Init ==
    /\ pc = "init"
    /\ heap \in SeqsUpTo(Lines, MaxLines)
    /\ \E pls \in PolylineLists, d \in Diameters :
           shape = RebarShape([k \in 1..Len(heap) |-> k], pls, d)
    /\ number = 0
    /\ representation_mode = AS_LINE
    /\ representation = <<>>
    /\ err = "none"
    /\ rep0 = <<>>
    /\ muts = 0
    /\ call = NoCall

(* RebarGroup.__init__ *)

Construct(n, mode) ==
    /\ pc = "init"
    /\ LET r == GenerateRepresentation(shape, heap, n, mode)
       IN  /\ number' = n
           /\ representation_mode' = mode
           /\ pc' = IF r.err = "none" THEN "built" ELSE "failed"
           /\ representation' = r.rep
           /\ err' = r.err
           /\ rep0' = RepValue(r.rep, heap)
    /\ UNCHANGED <<heap, shape, muts, call>>

NewGroup == \E n \in Numbers, mode \in Modes : Construct(n, mode)

----------------------------------------------------------------------------
(* What a caller can do to a built group and its shape: plain attribute and  *)
(* list operations; none of them is intercepted by RebarGroup or RebarShape  *)

Mutable == pc = "built" /\ muts < MaxMut

SetNumber(n) ==
    /\ Mutable
    /\ n # number
    /\ number' = n
    /\ muts' = muts + 1
    /\ UNCHANGED <<pc, heap, shape, representation_mode, representation, err, rep0, call>>

SetMode(mode) ==
    /\ Mutable
    /\ mode # representation_mode
    /\ representation_mode' = mode
    /\ muts' = muts + 1
    /\ UNCHANGED <<pc, heap, shape, number, representation, err, rep0, call>>

SetBarDiameter(d) ==
    /\ Mutable
    /\ d # shape.bar_diameter
    /\ shape' = [shape EXCEPT !.bar_diameter = d]
    /\ muts' = muts + 1
    /\ UNCHANGED <<pc, heap, number, representation_mode, representation, err, rep0, call>>

\* shape.lines.append(Line(...))
LinesAppend(l) ==
    /\ Mutable
    /\ Len(heap) < MaxLines + 1
    /\ heap' = Append(heap, l)
    /\ shape' = [shape EXCEPT !.lines = Append(@, Len(heap) + 1)]
    /\ muts' = muts + 1
    /\ UNCHANGED <<pc, number, representation_mode, representation, err, rep0, call>>

\* shape.lines.pop()
LinesPop ==
    /\ Mutable
    /\ shape.lines # <<>>
    /\ shape' = [shape EXCEPT !.lines = SubSeq(@, 1, Len(@) - 1)]
    /\ muts' = muts + 1
    /\ UNCHANGED <<pc, heap, number, representation_mode, representation, err, rep0, call>>

\* shape.lines[k].start = Point(...): the Line object itself changes
LineSetStart(k, p) ==
    /\ Mutable
    /\ k \in 1..Len(shape.lines)
    /\ heap[shape.lines[k]].start # Point(p)
    /\ heap' = [heap EXCEPT ![shape.lines[k]].start = Point(p)]
    /\ muts' = muts + 1
    /\ UNCHANGED <<pc, shape, number, representation_mode, representation, err, rep0, call>>

\* shape.polylines[k].value.extend([x, y, z])
PolylineExtend(k, p) ==
    /\ Mutable
    /\ k \in 1..Len(shape.polylines)
    /\ shape' = [shape EXCEPT !.polylines[k] = @ \o p]
    /\ muts' = muts + 1
    /\ UNCHANGED <<pc, heap, number, representation_mode, representation, err, rep0, call>>

\* shape.polylines.clear()
PolylinesClear ==
    /\ Mutable
    /\ shape.polylines # <<>>
    /\ shape' = [shape EXCEPT !.polylines = <<>>]
    /\ muts' = muts + 1
    /\ UNCHANGED <<pc, heap, number, representation_mode, representation, err, rep0, call>>

Mutate ==
    \/ \E n \in Numbers : SetNumber(n)
    \/ \E mode \in Modes : SetMode(mode)
    \/ \E d \in Diameters : SetBarDiameter(d)
    \/ \E l \in Lines : LinesAppend(l)
    \/ LinesPop
    \/ \E k \in 1..MaxLines, p \in Pts : LineSetStart(k, p)
    \/ \E k \in 1..MaxPolys, p \in Pts : PolylineExtend(k, p)
    \/ PolylinesClear

----------------------------------------------------------------------------
(* A direct call group._line_to_cylinder_mesh(line, num_segments) *)

CallLines == Lines \cup {Line(PyList(<<0, 0, 0>>), PyList(<<0, 0, 1>>))}

CallMesher(line, n) ==
    /\ pc = "built"
    /\ ~call.done
    /\ LET r == LineToCylinderMesh(line, n, shape.bar_diameter)
       IN  call' = [line |-> line, n |-> n, err |-> r.err, mesh |-> r.mesh, done |-> TRUE]
    /\ UNCHANGED <<pc, heap, shape, number, representation_mode, representation, err, rep0, muts>>

DirectMesh == \E line \in CallLines, n \in 0..MaxN : CallMesher(line, n)

\* A group built in the default mode over a shape of lines only
InitMesh ==
    /\ pc = "built"
    /\ heap \in SeqsUpTo(Lines, MaxLines)
    /\ \E d \in Diameters : shape = RebarShape([k \in 1..Len(heap) |-> k], <<>>, d)
    /\ number = 1
    /\ representation_mode = AS_LINE
    /\ representation = GenerateRepresentation(shape, heap, number, representation_mode).rep
    /\ err = "none"
    /\ rep0 = RepValue(representation, heap)
    /\ muts = 0
    /\ call = NoCall

----------------------------------------------------------------------------
(* Specifications *)

\* Construction of a group
Next == NewGroup

Spec == Init /\ [][Next]_vars

\* Construction, then mutation of the group and its shape
NextMut == NewGroup \/ Mutate

SpecMut == Init /\ [][NextMut]_vars

\* Direct calls of the mesher on a built group
NextMesh == DirectMesh

SpecMesh == InitMesh /\ [][NextMesh]_vars

----------------------------------------------------------------------------
(* Vocabulary of the properties *)

Built == pc = "built"
Attempted == pc # "init"
LineMode == representation_mode # AS_VOLUME

\* Number of points of a polyline value
NumPoints(value) == Len(value) \div 3

\* Point j (from 0) of a polyline value, as the list a slice gives
PointAt(value, j) == PyList(<<value[3 * j + 1], value[3 * j + 2], value[3 * j + 3]>>)

\* Segments a polyline of P points is said to flatten to
SegCount(P) == IF P >= 1 THEN P - 1 ELSE 0

RECURSIVE SegsBefore(_, _)
SegsBefore(polylines, q) ==
    IF q <= 1 THEN 0
    ELSE SegCount(NumPoints(polylines[q - 1])) + SegsBefore(polylines, q - 1)

\* Segments of one instance of the shape
FlatCount(sh) == Len(sh.lines) + SegsBefore(sh.polylines, Len(sh.polylines) + 1)

\* Segment k (from 1) of one instance of the shape: the lines, then each polyline's segments
FlatAt(sh, k) ==
    IF k <= Len(sh.lines) THEN Ref(sh.lines[k])
    ELSE LET q == CHOOSE q \in 1..Len(sh.polylines) :
                      /\ Len(sh.lines) + SegsBefore(sh.polylines, q) < k
                      /\ k <= Len(sh.lines) + SegsBefore(sh.polylines, q + 1)
             j == k - Len(sh.lines) - SegsBefore(sh.polylines, q) - 1
         IN  New(Line(PointAt(sh.polylines[q], j), PointAt(sh.polylines[q], j + 1)))

IsLineElem(e) == "id" \in DOMAIN e
IsMeshElem(e) == "vertices" \in DOMAIN e

\* Coordinates of the two ends of a Line, whatever holds them
Ends(l) == <<l.start.c, l.end.c>>

ZeroLength(l) == l.start.c = l.end.c

\* Run r (from 1) of a face buffer made of runs [3, i1, i2, i3]
Run(faces, r) == SubSeq(faces, 4 * (r - 1) + 1, 4 * r)

NumRuns(faces) == Len(faces) \div 4

MeshReturned == call.done /\ call.err = "none" /\ call.n >= 1

----------------------------------------------------------------------------
(* C1: in line mode with number >= 0 the representation is the flattened      *)
(* segment sequence of the shape (its lines in order, then the segments of   *)
(* each polyline in order) repeated number times, instance after instance;   *)
(* for a shape without polylines its length is number * len(lines).          *)
C1_LineModeRepeatsFlattening ==
    (Attempted /\ LineMode /\ number >= 0) =>
        /\ Built
        /\ Len(representation) = number * FlatCount(shape)
        /\ \A k \in 1..Len(representation) :
               representation[k] = FlatAt(shape, ((k - 1) % FlatCount(shape)) + 1)
        /\ (shape.polylines = <<>> => Len(representation) = number * Len(shape.lines))

C1_Witness ==
    /\ Built /\ LineMode /\ number = 2
    /\ Len(shape.lines) >= 1
    /\ \E q \in 1..Len(shape.polylines) : NumPoints(shape.polylines[q]) = 3
    /\ Len(representation) = 2 * (Len(shape.lines) + 2)

(* C2: a polyline of P points (a value of length 3P) flattens to P-1         *)
(* segments when P >= 1 and to none when P <= 1, and its j-th segment runs   *)
(* from point j to point j+1.                                                *)
C2_PolylineFlattening ==
    (Built /\ LineMode /\ number >= 1) =>
        /\ Len(representation) = number * FlatCount(shape)
        /\ \A q \in 1..Len(shape.polylines) :
               LET value == shape.polylines[q]
                   off == Len(shape.lines) + SegsBefore(shape.polylines, q)
               IN  \A j \in 0..(NumPoints(value) - 2) :
                       /\ off + j + 1 <= Len(representation)
                       /\ representation[off + j + 1].id = 0
                       /\ representation[off + j + 1].line.start = PointAt(value, j)
                       /\ representation[off + j + 1].line.end = PointAt(value, j + 1)

C2_Witness ==
    /\ Built /\ LineMode /\ number = 1
    /\ shape.lines = <<>>
    /\ Len(shape.polylines) = 1
    /\ NumPoints(shape.polylines[1]) = 3
    /\ Len(representation) = 2

(* C3: for the same shape and number, volume mode yields as many meshes as   *)
(* line mode yields segments, the k-th mesh built from the k-th segment.     *)
C3_MeshPerLineSegment ==
    (Attempted /\ representation_mode = AS_VOLUME) =>
        LET segs == GenerateLineRepresentation(shape, number).rep
        IN  /\ Built
            /\ Len(representation) = Len(segs)
            /\ \A k \in 1..Len(segs) :
                   representation[k] = MeshOf(Deref(segs[k], heap), DefaultNumSegments, shape.bar_diameter)

(* C4: a negative number makes construction fail with InvalidArgument, in    *)
(* both modes; it does not yield an empty representation.                    *)
C4_NegativeNumberRejected ==
    (Attempted /\ number < 0) => (pc = "failed" /\ err = "InvalidArgument")

(* C5: in volume mode with number >= 1, a zero-length segment in the shape   *)
(* makes construction fail with DegenerateGeometry and stores nothing.       *)
C5_ZeroLengthRejected ==
    ( /\ Attempted /\ representation_mode = AS_VOLUME /\ number >= 1
      /\ \E k \in 1..FlatCount(shape) : ZeroLength(Deref(FlatAt(shape, k), heap)) ) =>
        (pc = "failed" /\ err = "DegenerateGeometry" /\ representation = <<>>)

(* C6: every mode other than "AsVolume", recognised or not, does not raise   *)
(* and gives exactly the Lines "AsLine" gives for the same shape and number; *)
(* only "AsVolume" goes through the mesher.                                  *)
C6_OtherModesAreLineMode ==
    /\ (Attempted /\ representation_mode # AS_VOLUME) =>
           /\ Built /\ err = "none"
           /\ representation = GenerateRepresentation(shape, heap, number, AS_LINE).rep
           /\ \A k \in 1..Len(representation) : IsLineElem(representation[k])
    /\ (Built /\ representation_mode = AS_VOLUME) =>
           \A k \in 1..Len(representation) : IsMeshElem(representation[k])

C6_Witness ==
    /\ Built /\ representation_mode = "bogus" /\ number = 2
    /\ Len(shape.lines) >= 1
    /\ Len(representation) >= 2

(* C8: after construction, no mutation of the shape (its lines, polylines,   *)
(* bar_diameter), the number or the mode changes the stored representation:  *)
(* it stays equal to the value computed at construction.                     *)
C8_RepresentationFrozen ==
    Built => RepValue(representation, heap) = rep0

----------------------------------------------------------------------------
(* C7 as stated: a mesh for num_segments = N >= 1 has 2N vertices (6N        *)
(* scalars) and 6N triangular faces, 4N side ones then 2N cap ones.          *)
C7_SixNFaces ==
    MeshReturned =>
        /\ Len(call.mesh.vertices) = 6 * call.n
        /\ Len(call.mesh.faces) = 4 * (6 * call.n)
        /\ \A r \in 1..(6 * call.n) : Run(call.mesh.faces, r)[1] = 3

(* C7 amended: a mesh for num_segments = N >= 1 has 2N vertices (6N scalars, *)
(* bottom and top interleaved per circle point) and 4N triangular faces:     *)
(* 2N side triangles, then 2N cap triangles, each a run [3, i1, i2, i3].     *)
C7_FourNFaces ==
    MeshReturned =>
        LET N == call.n
            v == call.mesh.vertices
            f == call.mesh.faces
            dir == [k \in 1..3 |-> call.line.end.c[k] - call.line.start.c[k]]
        IN  /\ Len(v) = 6 * N
            /\ \A i \in 0..(N - 1) : \A c \in 1..3 :
                   /\ v[6 * i + c].base = call.line.start.c[c] /\ v[6 * i + c].sweep = 0
                   /\ v[6 * i + 3 + c].base = call.line.start.c[c] /\ v[6 * i + 3 + c].sweep = dir[c]
                   /\ c < 3 => (v[6 * i + c].off.i = i /\ v[6 * i + 3 + c].off.i = i)
            /\ Len(f) = 4 * (4 * N)
            /\ \A r \in 1..(4 * N) : Run(f, r)[1] = 3
            /\ \A i \in 0..(N - 1) :
                   LET b1 == 2 * i
                       b2 == 2 * ((i + 1) % N)
                   IN  /\ Run(f, 2 * i + 1) = <<3, b1, b1 + 1, b2>>
                       /\ Run(f, 2 * i + 2) = <<3, b1 + 1, b2 + 1, b2>>
            /\ \A r \in (2 * N + 1)..(4 * N) :
                   Run(f, r)[2] = Run(f, IF (r % 2) = 1 THEN 2 * N + 1 ELSE 2 * N + 2)[2]

C7_Witness ==
    /\ MeshReturned /\ call.n = MaxN
    /\ call.line.start.c # call.line.end.c
    /\ NumRuns(call.mesh.faces) = 4 * MaxN

(* C9: the cap faces are two fans: for each i in 0..N-1 a bottom-cap         *)
(* triangle on ring vertices 2i and 2((i+1) mod N) and a top-cap triangle on *)
(* ring vertices 2i+1 and 2((i+1) mod N)+1.                                  *)
C9_CapFans ==
    MeshReturned =>
        LET N == call.n
            f == call.mesh.faces
            caps == {r \in 1..NumRuns(f) : r > 2 * N}
        IN  \A i \in 0..(N - 1) :
                /\ \E r \in caps : {Run(f, r)[3], Run(f, r)[4]} = {2 * i, 2 * ((i + 1) % N)}
                /\ \E r \in caps : {Run(f, r)[3], Run(f, r)[4]} = {2 * i + 1, 2 * ((i + 1) % N) + 1}

(* C10: every vertex index in a face run of a mesh refers to an emitted      *)
(* vertex: it lies in 0..2N-1, where 2N = len(vertices) / 3.                 *)
C10_FaceIndicesInRange ==
    MeshReturned =>
        LET f == call.mesh.faces
            nv == Len(call.mesh.vertices) \div 3
        IN  \A r \in 1..NumRuns(f) : \A c \in 2..4 : Run(f, r)[c] \in 0..(nv - 1)

====
